---- MODULE Spec2Model ----
(***************************************************************************)
(* dbc_calc/dbc_script.py: one run of the dynamic binding capacity          *)
(* calculator.  main parses the command line and loads the csv file,        *)
(* data_analysis fits the sigmoid and computes the 10% DBC and the quality  *)
(* score, main gates on the score and writes the results file and the plot, *)
(* and the process exits with main's return value.                          *)
(*                                                                          *)
(* Floating point numbers are modelled as exact rationals in lowest terms,  *)
(* plus the three non-real IEEE values nan, +inf and -inf that numpy         *)
(* produces on a division by zero.  Rounding of the last bit is not         *)
(* modelled.  np.exp is tabulated (see Logistic), np.log(9) is 2.197.       *)
(* The command line itself is well formed (argparse accepts it).            *)
(***************************************************************************)
EXTENDS Integers, Sequences, FiniteSets, TLC

(* ------------------------------ bounds -------------------------------- *)
\* most rows of an input file
MaxRows == 5
\* most columns of an input file
MaxCols == 3

(* ------------------------- program constants -------------------------- *)
SUCCESS == 0
IO_ERROR == 1
INVALID_DATA == 2
\* the exit status of a Python process that ends in an uncaught exception
UNCAUGHT_EXIT == 1

(* ------------------------- numbers (float64) --------------------------- *)
Abs(a) == IF a < 0 THEN -a ELSE a

RECURSIVE GCD(_, _)
GCD(a, b) == IF b = 0 THEN a ELSE GCD(b, a % b)

\* a real number n/d, d > 0, in lowest terms
Norm(n, d) ==
    LET g == GCD(Abs(n), Abs(d))
        s == IF d < 0 THEN -1 ELSE 1
    IN  [k |-> "real", n |-> s * (n \div g), d |-> s * (d \div g)]

NaN == [k |-> "nan", n |-> 0, d |-> 0]
PInf == [k |-> "pinf", n |-> 0, d |-> 0]
NInf == [k |-> "ninf", n |-> 0, d |-> 0]

IsReal(a) == a.k = "real"

FNeg(a) ==
    IF IsReal(a) THEN Norm(-a.n, a.d)
    ELSE IF a.k = "pinf" THEN NInf ELSE IF a.k = "ninf" THEN PInf ELSE NaN

\* a + b.  (inf + -inf is nan)
FAdd(a, b) ==
    IF a.k = "nan" \/ b.k = "nan" THEN NaN
    ELSE IF ~IsReal(a) /\ ~IsReal(b) THEN (IF a.k = b.k THEN a ELSE NaN)
    ELSE IF ~IsReal(a) THEN a
    ELSE IF ~IsReal(b) THEN b
    ELSE LET g == GCD(a.d, b.d)
             l == (a.d \div g) * b.d
         IN  Norm(a.n * (l \div a.d) + b.n * (l \div b.d), l)

FSub(a, b) == FAdd(a, FNeg(b))

\* a * b, of real numbers
FMul(a, b) ==
    LET g1 == GCD(Abs(a.n), b.d)
        g2 == GCD(Abs(b.n), a.d)
    IN  Norm((a.n \div g1) * (b.n \div g2), (a.d \div g2) * (b.d \div g1))

\* a / b, of real numbers, as numpy's float64 divides: a zero divisor gives
\* nan (0/0) or an infinity (with a RuntimeWarning, no exception)
FDiv(a, b) ==
    IF b.n = 0
    THEN (IF a.n = 0 THEN NaN ELSE IF a.n > 0 THEN PInf ELSE NInf)
    ELSE LET g1 == GCD(Abs(a.n), Abs(b.n))
             g2 == GCD(a.d, b.d)
         IN  Norm((a.n \div g1) * (b.d \div g2), (a.d \div g2) * (b.n \div g1))

\* a > b and a < b as IEEE comparisons of a float with a real number b: every
\* comparison with nan is false
FGt(a, b) ==
    IF IsReal(a) THEN a.n * b.d > b.n * a.d ELSE a.k = "pinf"

FLt(a, b) ==
    IF IsReal(a) THEN a.n * b.d < b.n * a.d ELSE a.k = "ninf"

RECURSIVE FSum(_)
FSum(s) == IF s = <<>> THEN Norm(0, 1) ELSE FAdd(s[1], FSum(Tail(s)))

\* np.mean
FMean(s) == FDiv(FSum(s), Norm(Len(s), 1))

Sq(a) == FMul(a, a)

\* np.log(9), to three decimals
LN9 == Norm(2197, 1000)

(* ---------------------------- the input file --------------------------- *)
\* A field of the csv file: a finite decimal literal n/d, or text that is no
\* number.
Tok(n, d) == [num |-> TRUE, n |-> n, d |-> d]
BadTok == [num |-> FALSE, n |-> 0, d |-> 1]

\* The (x, y) samples the rows are drawn from: x a loading, y a fraction
\* breakthrough in hundredths; a table may repeat a sample.  They follow a
\* sigmoid near k = 0.4, x0 = 70.  (70, 0.50) and (170, 1.00) are values
\* float64 gives exactly for that curve; (60, 0.05) is off every curve of the
\* parameter grid, so that no prediction equals an observation only because
\* Logistic is rounded.
Points == {<<60, 5>>, <<70, 50>>, <<170, 100>>}

\* a row of c fields for the sample p: x, y, then zeros
RowOf(p, c) ==
    [j \in 1..c |-> IF j = 1 THEN Tok(p[1], 1)
                    ELSE IF j = 2 THEN Tok(p[2], 100)
                    ELSE Tok(0, 1)]

Table(n, c, f) == [readable |-> TRUE, rows |-> [i \in 1..n |-> RowOf(f[i], c)]]

Unreadable == [readable |-> FALSE, rows |-> <<>>]

\* every table of n <= MaxRows rows and c <= MaxCols columns of numbers
WellFormedFiles ==
    UNION {{Table(n, c, f) : c \in 1..MaxCols, f \in [1..n -> Points]} :
            n \in 0..MaxRows}

\* a table whose last field is no number
NonNumeric(t) ==
    LET n == Len(t.rows)
        c == Len(t.rows[n])
    IN  [t EXCEPT !.rows[n][c] = BadTok]

\* a table whose last row has one field more than the others
Ragged(t) ==
    LET n == Len(t.rows)
    IN  [t EXCEPT !.rows[n] = Append(@, Tok(0, 1))]

\* the malformed tables: one sample repeated, then the defect
DefectiveFiles ==
    LET base == UNION {{Table(n, c, [i \in 1..n |-> p]) :
                          c \in 1..MaxCols, p \in Points} : n \in 1..MaxRows}
    IN  {NonNumeric(t) : t \in base}
        \cup {Ragged(t) : t \in {b \in base : Len(b.rows) >= 2}}

Files == WellFormedFiles \cup DefectiveFiles \cup {Unreadable}

(* ------------------------------ np.loadtxt ----------------------------- *)
\* float(field)
Float(tok) == Norm(tok.n, tok.d)

NoArray == [shape |-> <<-1>>, flat |-> <<>>]

RECURSIVE Flatten(_)
Flatten(rows) ==
    IF rows = <<>> THEN <<>> ELSE rows[1] \o Flatten(Tail(rows))

\* np.loadtxt(fname, delimiter=','): IOError for a file that cannot be read,
\* ValueError for a field that is no number or a row of another length than
\* the first; otherwise the array, squeezed: an empty file gives shape (0,),
\* one row or one column a 1-D array, one field a 0-D array.
LoadTxt(f) ==
    IF ~f.readable THEN [err |-> "IOError", arr |-> NoArray]
    ELSE IF \E i \in DOMAIN f.rows : \E j \in DOMAIN f.rows[i] : ~f.rows[i][j].num
    THEN [err |-> "ValueError", arr |-> NoArray]
    ELSE IF \E i \in DOMAIN f.rows : Len(f.rows[i]) # Len(f.rows[1])
    THEN [err |-> "ValueError", arr |-> NoArray]
    ELSE LET n == Len(f.rows)
             c == IF n = 0 THEN 0 ELSE Len(f.rows[1])
             vals == Flatten([i \in 1..n |-> [j \in 1..c |-> Float(f.rows[i][j])]])
             shape == IF n = 0 THEN <<0>>
                      ELSE IF n = 1 /\ c = 1 THEN <<>>
                      ELSE IF n = 1 THEN <<c>>
                      ELSE IF c = 1 THEN <<n>>
                      ELSE <<n, c>>
         IN  [err |-> "none", arr |-> [shape |-> shape, flat |-> vals]]

NDim(a) == Len(a.shape)

\* a[:, j] of a 2-D array (j counted from 1)
Column(a, j) == [i \in 1..a.shape[1] |-> a.flat[(i - 1) * a.shape[2] + j]]

(* ------------------------------- the fit ------------------------------- *)
\* 1 / (1 + np.exp(-t)) in hundredths, for a whole number t: the float64
\* value to two decimals.  From t = 37 on the float64 value is exactly 1.
Logistic(t) ==
    IF t >= 6 THEN 100
    ELSE IF t <= -6 THEN 0
    ELSE <<1, 2, 5, 12, 27, 50, 73, 88, 95, 98, 99>>[t + 6]

\* the whole number nearest to the real number a
Round(a) == (2 * a.n + a.d) \div (2 * a.d)

\* sigmoid(x, k, x0) = 1 / (1 + np.exp(-k*(x-x0)))
sigmoid(x, k, x0) == Norm(Logistic(Round(FMul(k, FSub(x, x0)))), 100)

\* The parameter pairs curve_fit may return: k in tenths, x0 a whole number.
\* <<4, 70>> is the starting guess p0 = [0.4, 70.0].
KGrid == {-4, 0, 4}
X0Grid == {60, 70}
Popts == {<<Norm(kn, 10), Norm(x0, 1)>> : kn \in KGrid, x0 \in X0Grid}

\* ypredicted = 1 / (1 + np.exp(-popt[0]*(xdata-popt[1])))
Ypredicted(xdata, popt) ==
    [i \in DOMAIN xdata |-> sigmoid(xdata[i], popt[1], popt[2])]

\* the sign of ln(9)/k flipped: the x where the curve is at 0.9
Dbc10pSignFlipped(popt) == FAdd(FDiv(LN9, popt[1]), popt[2])

\* dbc_10p = (-np.log(9) / popt[0]) + popt[1]
Dbc10p(popt) == FAdd(FDiv(FNeg(LN9), popt[1]), popt[2])

\* residcalc1 = (ydata - np.mean(ydata))**2
Residcalc1(ydata) ==
    LET m == FMean(ydata)
    IN  [i \in DOMAIN ydata |-> Sq(FSub(ydata[i], m))]

\* the conventional residuals (ydata - ypredicted)**2 in residcalc2's place
Residcalc2Conventional(ydata, ypredicted) ==
    [i \in DOMAIN ydata |-> Sq(FSub(ydata[i], ypredicted[i]))]

\* residcalc2 = (ypredicted - np.mean(ydata))**2
Residcalc2(ydata, ypredicted) ==
    LET m == FMean(ydata)
    IN  [i \in DOMAIN ydata |-> Sq(FSub(ypredicted[i], m))]

\* rsquared = np.sum(residcalc2) / np.sum(residcalc1)
RSquared(xdata, ydata, popt) ==
    FDiv(FSum(Residcalc2(ydata, Ypredicted(xdata, popt))),
         FSum(Residcalc1(ydata)))

Zero == Norm(0, 1)

\* the result array started from np.ones instead of np.zeros
DataStatsFromOnes(data_array, popt) ==
    LET xdata == Column(data_array, 1)
        ydata == Column(data_array, 2)
    IN  [i \in 1..data_array.shape[1] |->
            <<xdata[i], ydata[i],
              IF i = 1 THEN popt[1]
              ELSE IF i = 2 THEN popt[2]
              ELSE IF i = 3 THEN Dbc10p(popt)
              ELSE IF i = 4 THEN RSquared(xdata, ydata, popt)
              ELSE Norm(1, 1)>>]

\* data_stats = np.zeros((num_rows, 3)) with columns 0 and 1 set to xdata and
\* ydata and rows 0..3 of column 2 set to k, x0, dbc_10p, rsquared
\* (for num_rows >= 4; a shorter array raises IndexError, see DataAnalysisReturn)
DataStats(data_array, popt) ==
    LET xdata == Column(data_array, 1)
        ydata == Column(data_array, 2)
        dbc_10p == Dbc10p(popt)
        rsquared == RSquared(xdata, ydata, popt)
    IN  [i \in 1..data_array.shape[1] |->
            <<xdata[i], ydata[i],
              IF i = 1 THEN popt[1]
              ELSE IF i = 2 THEN popt[2]
              ELSE IF i = 3 THEN dbc_10p
              ELSE IF i = 4 THEN rsquared
              ELSE Zero>>]

(* ------------------------------ the state ------------------------------ *)
VARIABLES
    file,         \* the csv file named on the command line
    pc,           \* where the run is
    ret,          \* parse_cmdline's return code (-1: not returned yet)
    csv_data,     \* args.csv_data
    popt,         \* curve_fit's result, <<k, x0>> (<<>>: none)
    fit_calls,    \* how often curve_fit was called
    data_stats,   \* data_analysis' result, one <<x, y, stat>> per row (<<>>: none)
    raised,       \* the exception propagating out of main ("none": none)
    status,       \* main's return value: Unset (not returned), None or a number
    exit_code,    \* the process exit status (-1: still running)
    wrote_csv,    \* the results file <name>_stats.csv, as written (<<>>: not written)
    wrote_png,    \* whether the plot <name>_stats.png was written
    warned        \* the warnings printed

Unset == [k |-> "unset", v |-> 0]
None == [k |-> "None", v |-> 0]
Returned(v) == [k |-> "int", v |-> v]

vars == <<file, pc, ret, csv_data, popt, fit_calls, data_stats, raised, status,
          exit_code, wrote_csv, wrote_png, warned>>

Init ==
    /\ file \in Files
    /\ pc = "start"
    /\ ret = -1
    /\ csv_data = NoArray
    /\ popt = <<>>
    /\ fit_calls = 0
    /\ data_stats = <<>>
    /\ raised = "none"
    /\ status = Unset
    /\ exit_code = -1
    /\ wrote_csv = <<>>
    /\ wrote_png = FALSE
    /\ warned = {}

\* parse_cmdline's return code for what np.loadtxt did
RetCode(err) ==
    IF err = "IOError" THEN IO_ERROR
    ELSE IF err = "ValueError" THEN INVALID_DATA
    ELSE SUCCESS

\* parse_cmdline: loads the file; an IOError or ValueError is caught, warned
\* about and turned into a return code
ParseCmdline ==
    /\ pc = "start"
    /\ LET r == LoadTxt(file)
       IN  /\ ret' = RetCode(r.err)
           /\ csv_data' = r.arr
           /\ warned' = IF r.err = "IOError" THEN warned \cup {"Problems reading file"}
                        ELSE IF r.err = "ValueError" THEN warned \cup {"Read invalid data"}
                        ELSE warned
    /\ pc' = "parsed"
    /\ UNCHANGED <<file, popt, fit_calls, data_stats, raised, status, exit_code,
                   wrote_csv, wrote_png>>

\* main: if ret != SUCCESS: return ret
MainReturnsError ==
    /\ pc = "parsed"
    /\ ret # SUCCESS
    /\ status' = Returned(ret)
    /\ pc' = "returned"
    /\ UNCHANGED <<file, ret, csv_data, popt, fit_calls, data_stats, raised,
                   exit_code, wrote_csv, wrote_png, warned>>

\* data_analysis, xdata = data_array[:, 0]; ydata = data_array[:, 1]: an array
\* of fewer than two dimensions raises IndexError
DataAnalysisEnter ==
    /\ pc = "parsed"
    /\ ret = SUCCESS
    /\ IF NDim(csv_data) < 2
       THEN raised' = "IndexError" /\ pc' = "raised"
       ELSE raised' = raised /\ pc' = "fit"
    /\ UNCHANGED <<file, ret, csv_data, popt, fit_calls, data_stats, status,
                   exit_code, wrote_csv, wrote_png, warned>>

\* curve_fit(sigmoid, xdata, ydata, p0) converges: scipy's optimizer returns
\* some parameter pair
CurveFitConverges ==
    /\ pc = "fit"
    /\ \E p \in Popts : popt' = p
    /\ fit_calls' = fit_calls + 1
    /\ pc' = "fitted"
    /\ UNCHANGED <<file, ret, csv_data, data_stats, raised, status, exit_code,
                   wrote_csv, wrote_png, warned>>

\* non-convergence answered by a second call of curve_fit before giving up
CurveFitFailsAfterRetry ==
    /\ pc = "fit"
    /\ fit_calls' = fit_calls + 2
    /\ raised' = "RuntimeError"
    /\ pc' = "raised"
    /\ UNCHANGED <<file, ret, csv_data, popt, data_stats, status, exit_code,
                   wrote_csv, wrote_png, warned>>

\* curve_fit does not converge: it raises RuntimeError, which neither
\* data_analysis nor main catches
CurveFitFails ==
    /\ pc = "fit"
    /\ fit_calls' = fit_calls + 1
    /\ raised' = "RuntimeError"
    /\ pc' = "raised"
    /\ UNCHANGED <<file, ret, csv_data, popt, data_stats, status, exit_code,
                   wrote_csv, wrote_png, warned>>

\* data_analysis after the fit: the statistics and the result array.
\* data_stats[2, 2] and data_stats[3, 2] raise IndexError when the array has
\* fewer than four rows.
DataAnalysisReturn ==
    /\ pc = "fitted"
    /\ IF csv_data.shape[1] < 4
       THEN /\ raised' = "IndexError"
            /\ pc' = "raised"
            /\ UNCHANGED data_stats
       ELSE /\ data_stats' = DataStats(csv_data, popt)
            /\ pc' = "gate"
            /\ UNCHANGED raised
    /\ UNCHANGED <<file, ret, csv_data, popt, fit_calls, status, exit_code,
                   wrote_csv, wrote_png, warned>>

\* if data_stats[3, 2] > 1.05 or data_stats[3, 2] < 0.95
BadRSquared(rsquared) ==
    FGt(rsquared, Norm(105, 100)) \/ FLt(rsquared, Norm(95, 100))

\* main: a poor fit prints bad_fit's warning and returns its result, None
MainBadFit ==
    /\ pc = "gate"
    /\ BadRSquared(data_stats[4][3])
    /\ warned' = warned \cup {"sigmoid fit is poor"}
    /\ status' = None
    /\ pc' = "returned"
    /\ UNCHANGED <<file, ret, csv_data, popt, fit_calls, data_stats, raised,
                   exit_code, wrote_csv, wrote_png>>

\* main: np.savetxt(out_fname, data_stats, delimiter=',')
MainSaveTxt ==
    /\ pc = "gate"
    /\ ~BadRSquared(data_stats[4][3])
    /\ wrote_csv' = data_stats
    /\ pc' = "plot"
    /\ UNCHANGED <<file, ret, csv_data, popt, fit_calls, data_stats, raised,
                   status, exit_code, wrote_png, warned>>

\* main: plot_stats(...) saves the png; then return SUCCESS
MainPlotStats ==
    /\ pc = "plot"
    /\ wrote_png' = TRUE
    /\ status' = Returned(SUCCESS)
    /\ pc' = "returned"
    /\ UNCHANGED <<file, ret, csv_data, popt, fit_calls, data_stats, raised,
                   exit_code, wrote_csv, warned>>

\* sys.exit(status): None exits with 0, a number with that number
ExitStatus(st) == IF st = None THEN 0 ELSE st.v

\* status = main(); sys.exit(status)
Exit ==
    /\ pc = "returned"
    /\ exit_code' = ExitStatus(status)
    /\ pc' = "exited"
    /\ UNCHANGED <<file, ret, csv_data, popt, fit_calls, data_stats, raised,
                   status, wrote_csv, wrote_png, warned>>

\* an exception leaves main: the interpreter prints the traceback and exits
ExitUncaught ==
    /\ pc = "raised"
    /\ exit_code' = UNCAUGHT_EXIT
    /\ pc' = "exited"
    /\ UNCHANGED <<file, ret, csv_data, popt, fit_calls, data_stats, raised,
                   status, wrote_csv, wrote_png, warned>>

Next ==
    \/ ParseCmdline
    \/ MainReturnsError
    \/ DataAnalysisEnter
    \/ CurveFitConverges
    \/ CurveFitFails
    \/ DataAnalysisReturn
    \/ MainBadFit
    \/ MainSaveTxt
    \/ MainPlotStats
    \/ Exit
    \/ ExitUncaught

Spec == Init /\ [][Next]_vars

(* ----------------------- vocabulary of the claims ---------------------- *)
NRows(f) == Len(f.rows)

AllNumeric(f) == \A i \in DOMAIN f.rows : \A j \in DOMAIN f.rows[i] : f.rows[i][j].num

\* a readable table of numbers with c fields in every row
NumericTable(f, c) ==
    /\ f.readable
    /\ AllNumeric(f)
    /\ \A i \in DOMAIN f.rows : Len(f.rows[i]) = c

\* unreadable, a field that is no number, rows of unequal length, or a column
\* count other than two
Malformed(f) ==
    \/ ~f.readable
    \/ ~AllNumeric(f)
    \/ \E i \in DOMAIN f.rows : Len(f.rows[i]) # 2

NothingWritten == wrote_csv = <<>> /\ ~wrote_png
BothWritten == wrote_csv # <<>> /\ wrote_png

\* 0.95 <= q <= 1.05 for a real q
InWindow(q) == IsReal(q) /\ 100 * q.n >= 95 * q.d /\ 100 * q.n <= 105 * q.d

RECURSIVE ISum(_)
ISum(s) == IF s = <<>> THEN 0 ELSE s[1] + ISum(Tail(s))

\* The sample set in whole numbers, read off the file: y in hundredths, and
\* the prediction y_hat in hundredths for the fitted parameters.
FileX(i) == file.rows[i][1].n
FileY(i) == file.rows[i][2].n
FileYHat(i) ==
    LET v == sigmoid(Norm(FileX(i), 1), popt[1], popt[2])
    IN  (100 * v.n) \div v.d

\* n^2 * 10^4 times sum((y_hat - mean(y))^2), sum((y - mean(y))^2) and
\* sum((y - y_hat)^2), with n * mean(y) = sum(y)
SSExplained ==
    LET n == NRows(file)
        sy == ISum([i \in 1..n |-> FileY(i)])
    IN  ISum([i \in 1..n |-> (n * FileYHat(i) - sy) * (n * FileYHat(i) - sy)])

SSTotal ==
    LET n == NRows(file)
        sy == ISum([i \in 1..n |-> FileY(i)])
    IN  ISum([i \in 1..n |-> (n * FileY(i) - sy) * (n * FileY(i) - sy)])

SSResidual ==
    LET n == NRows(file)
    IN  ISum([i \in 1..n |-> (n * (FileY(i) - FileYHat(i))) * (n * (FileY(i) - FileYHat(i)))])

\* sum((y_hat - mean(y))^2) / sum((y - mean(y))^2), as float64 division gives it
ExplainedOverTotal ==
    IF SSTotal = 0 THEN (IF SSExplained = 0 THEN NaN ELSE PInf)
    ELSE Norm(SSExplained, SSTotal)

\* dbc = x0 - ln(9)/k, stated without a division: k * (x0 - dbc) = 2.197;
\* for k = 0 the float64 quotient -ln(9)/k is -inf
IsClosedForm(dbc, k, x0) ==
    IF k.n = 0 THEN dbc = NInf
    ELSE /\ IsReal(dbc)
         /\ (x0.n * dbc.d - dbc.n * x0.d) * k.n * 1000 = 2197 * x0.d * dbc.d * k.d

(* ------------------------------ the claims ----------------------------- *)

\* C1: main writes the results file and the plot if and only if
\* 0.95 <= quality_score <= 1.05; for every other score data_analysis returns,
\* nothing is written, the poor-fit warning is printed and main returns.
C1_WritesIffInWindow ==
    (pc \in {"returned", "exited"} /\ data_stats # <<>>) =>
        /\ BothWritten <=> InWindow(data_stats[4][3])
        /\ ~InWindow(data_stats[4][3]) =>
              NothingWritten /\ "sigmoid fit is poor" \in warned

\* C2: input errors, fit errors and success exit with pairwise different
\* statuses, and only a run that wrote its outputs exits with the success status.
C2_ExitStatusDistinguishes ==
    pc = "exited" =>
        /\ raised = "RuntimeError" => exit_code \notin {SUCCESS, IO_ERROR, INVALID_DATA}
        /\ ret \in {IO_ERROR, INVALID_DATA} => exit_code = ret /\ exit_code # SUCCESS
        /\ exit_code = SUCCESS => BothWritten /\ status = Returned(SUCCESS)

\* C3: on a two-column table of numbers with at least 2 rows on which the
\* optimizer converged, data_analysis returns its results without raising.
C3_TwoRowsAccepted ==
    (NumericTable(file, 2) /\ NRows(file) >= 2 /\ popt # <<>> /\ pc # "fitted") =>
        raised = "none" /\ Len(data_stats) = NRows(file)

\* C4: a run on fewer than 2 samples (no row, or one row of two numbers) ends
\* with the fit error, with no result and no output file.
C4_TooFewSamplesFitError ==
    (NumericTable(file, 2) /\ NRows(file) < 2 /\ pc = "exited") =>
        raised = "RuntimeError" /\ data_stats = <<>> /\ NothingWritten

\* C5: a malformed or unreadable input is reported by parse_cmdline as an input
\* error, main returns it before data_analysis is called, nothing is written.
C5_MalformedIsInputError ==
    (Malformed(file) /\ pc # "start") =>
        /\ ret \in {IO_ERROR, INVALID_DATA}
        /\ pc \in {"parsed", "returned", "exited"}
        /\ pc # "parsed" => status = Returned(ret)
        /\ fit_calls = 0 /\ raised = "none"
        /\ NothingWritten

\* C6: when the optimizer does not converge the fit was attempted exactly once,
\* the failure propagates out of main (main never returns, the fit is not
\* tried again, the process exits unsuccessfully), and no output file is
\* written before or after the failure.
C6_NonConvergenceTerminal ==
    /\ [](raised = "RuntimeError" =>
            /\ fit_calls = 1
            /\ status = Unset /\ data_stats = <<>>
            /\ NothingWritten
            /\ pc \in {"raised", "exited"}
            /\ pc = "exited" => exit_code # SUCCESS)
    /\ [][raised = "RuntimeError" =>
            /\ raised' = raised /\ fit_calls' = fit_calls /\ status' = Unset
            /\ wrote_csv' = <<>> /\ ~wrote_png']_vars

C6_Witness == raised = "RuntimeError" /\ pc = "exited" /\ fit_calls = 1

\* C7: the quality score data_analysis returns is
\* sum((y_hat - mean(y))^2) / sum((y - mean(y))^2).
C7_QualityIsExplainedOverTotal ==
    data_stats # <<>> => data_stats[4][3] = ExplainedOverTotal

\* a returned score that is neither 1 - SSres/SStot nor SSres/SStot
C7_Witness ==
    /\ data_stats # <<>>
    /\ SSTotal # 0 /\ SSExplained # 0
    /\ data_stats[4][3] # Norm(SSTotal - SSResidual, SSTotal)
    /\ data_stats[4][3] # Norm(SSResidual, SSTotal)

\* C8: the derived metric data_analysis returns is x0 - ln(9)/k for the fitted
\* (k, x0) it returns beside it, obtained with the one fit of the run.
C8_DerivedMetricClosedForm ==
    data_stats # <<>> =>
        /\ IsClosedForm(data_stats[3][3], data_stats[1][3], data_stats[2][3])
        /\ data_stats[1][3] = popt[1] /\ data_stats[2][3] = popt[2]
        /\ fit_calls = 1

\* k = 0.4, x0 = 70 gives 70 - 2.197/0.4 = 64.5075
C8_Witness ==
    /\ data_stats # <<>>
    /\ popt = <<Norm(4, 10), Norm(70, 1)>>
    /\ data_stats[3][3] = Norm(645075, 10000)

\* C9: whenever data_analysis returns, k, x0, the derived metric and the
\* quality score are all real numbers.
C9_ResultsAreReal ==
    data_stats # <<>> => \A i \in 1..4 : IsReal(data_stats[i][3])

\* C10: data_analysis leaves its input as loaded and returns one row per input
\* row: x, y in the input's order, and in the third column k, x0, the derived
\* metric and the quality score in rows 0 to 3 and zero below.
C10_InputKeptResultLaidOut ==
    data_stats # <<>> =>
        /\ csv_data = LoadTxt(file).arr
        /\ Len(data_stats) = NRows(file)
        /\ \A i \in 1..Len(data_stats) :
              /\ Len(data_stats[i]) = 3
              /\ data_stats[i][1] = Float(file.rows[i][1])
              /\ data_stats[i][2] = Float(file.rows[i][2])
              /\ i >= 5 => data_stats[i][3] = Zero
        /\ data_stats[1][3] = popt[1]
        /\ data_stats[2][3] = popt[2]
        /\ IsClosedForm(data_stats[3][3], popt[1], popt[2])
        /\ data_stats[4][3] = ExplainedOverTotal

\* a result of five rows or more, from an input of three columns
C10_Witness ==
    /\ data_stats # <<>>
    /\ Len(data_stats) >= 5
    /\ csv_data.shape[2] = 3

====
